---- MODULE Spec2Model ----
(***************************************************************************)
(* A model of the returnTrend news bot: the background task scheduler      *)
(* (tasks/scheduler.py), the article store pipeline (tasks/news_tasks.py), *)
(* the article merge helper (utils/helpers.py), the LLM ranker             *)
(* (services/llm.py), the categorizer (services/news_processor.py), the    *)
(* message chunking and command cooldown of the chat handlers (bot.py)     *)
(* and the feed fetcher (services/scraper.py).  Each subsystem has its own *)
(* specification over the shared variable tuple; the variables of the      *)
(* other subsystems stay at their initial values.                          *)
(***************************************************************************)
EXTENDS Integers, Sequences, FiniteSets, TLC

VARIABLES
    \* TaskScheduler
    running,      \* self.running
    tasks,        \* self.tasks: task id -> task_info
    thr,          \* the loop threads (_run_scheduler), each with its position
    starter,      \* position of a caller inside start()
    budget,       \* public API calls still allowed in this behaviour
    \* NewsTasks and the JSON store
    store,        \* articles.json: the 'articles' list
    summaries,    \* summaries.json: the keys of the 'summaries' map
    run,          \* the pipeline or cleanup run in progress
    \* utils.helpers.merge_articles
    merge,        \* one call: its arguments and, once made, its outcome
    \* SimpleLLMConnector.rank_articles
    ranking,      \* one call: its arguments, the model's answer, its result
    \* rank_articles with a failing model, called at different times
    fallback,     \* the articles, the clock and the calls made so far
    \* NewsProcessor._categorize_article
    categ,        \* one call: the article, its position, its outcome
    \* bot._send_long_message
    reply,        \* one call: the text and the messages sent for it
    \* bot._LAST_COMMAND_CALL and the cooldown-gated command handlers
    cool,         \* the map, the monotonic clock and the last command call
    \* RSSScraper.fetch_all_feeds
    scrape,       \* one call: the fetch of each feed and the result
    \* storage.save_articles and storage.load_articles on one file
    disk,         \* the file, the writer's position and the last load
    \* handlers.handle_save_article
    prefs         \* users.json and the last callback answered

schedVars == <<running, tasks, thr, starter, budget>>
storeVars == <<store, summaries, run>>
nonSchedVars ==
    <<storeVars, merge, ranking, fallback, categ, reply, cool, scrape, disk,
      prefs>>
nonStoreVars ==
    <<schedVars, merge, ranking, fallback, categ, reply, cool, scrape, disk,
      prefs>>
nonMergeVars ==
    <<schedVars, storeVars, ranking, fallback, categ, reply, cool, scrape, disk,
      prefs>>
nonRankVars ==
    <<schedVars, storeVars, merge, fallback, categ, reply, cool, scrape, disk,
      prefs>>
nonFallbackVars ==
    <<schedVars, storeVars, merge, ranking, categ, reply, cool, scrape, disk,
      prefs>>
nonCategVars ==
    <<schedVars, storeVars, merge, ranking, fallback, reply, cool, scrape, disk,
      prefs>>
nonReplyVars ==
    <<schedVars, storeVars, merge, ranking, fallback, categ, cool, scrape, disk,
      prefs>>
nonCoolVars ==
    <<schedVars, storeVars, merge, ranking, fallback, categ, reply, scrape, disk,
      prefs>>
nonScrapeVars ==
    <<schedVars, storeVars, merge, ranking, fallback, categ, reply, cool, disk,
      prefs>>
nonDiskVars ==
    <<schedVars, storeVars, merge, ranking, fallback, categ, reply, cool, scrape,
      prefs>>
nonPrefsVars ==
    <<schedVars, storeVars, merge, ranking, fallback, categ, reply, cool, scrape,
      disk>>
vars ==
    <<running, tasks, thr, starter, budget, store, summaries, run, merge,
      ranking, fallback, categ, reply, cool, scrape, disk, prefs>>

(***************************************************************************)
(* Generic helpers.                                                        *)
(***************************************************************************)
Min(a, b) == IF a <= b THEN a ELSE b
Max(a, b) == IF a >= b THEN a ELSE b

(***************************************************************************)
(*                       PART I -- TaskScheduler                           *)
(*                                                                         *)
(* Time is measured in scheduler ticks (one tick = the 60 s sleep of the   *)
(* loop) and kept RELATIVE to the present: a task's next_run is the number *)
(* of ticks from now until it is due, Late (-1) once it lies strictly in   *)
(* the past.  The code only ever compares next_run with the current time   *)
(* and assigns now + interval, so the relative value decides every branch  *)
(* the absolute one decides.  last_run and run_count are written and never *)
(* read by the scheduler; they are left out.                               *)
(*                                                                         *)
(* task_info dictionaries are shared by reference between self.tasks and   *)
(* the tasks_to_run list of a loop thread.  A list entry carries the task  *)
(* id, the (immutable) interval and a flag `live`: whether the dictionary  *)
(* it refers to is still the one stored under that id in self.tasks.  A    *)
(* dictionary that has been replaced or deleted is only ever written       *)
(* through such an entry, never read again, so its fields need no state.   *)
(***************************************************************************)
MaxApiCalls == 3       \* calls of the public API over one behaviour
MaxLiveApiCalls == 2   \* the same, in the behaviours checked for liveness

NoInterval == -1       \* interval_minutes = None (one-time task)
Late == -1             \* next_run strictly before the present
SleepTicks == 1        \* time.sleep(60): one tick

ScrapeInterval == 1    \* config.scrape_interval_minutes, in ticks
CleanupInterval == 2   \* 1440 minutes, scaled to ticks

\* start() only acts when the scheduler is not running, so every second API
\* call at most creates a loop thread.
Threads == 1..((MaxApiCalls + 1) \div 2)
TaskOrder == <<"news_scraping", "cleanup", "job">>
TaskIds == {TaskOrder[i] : i \in 1..Len(TaskOrder)}
ApiTaskIds == {"job"}
Intervals == {0, 1}       \* interval_minutes of an API-scheduled task
Delays == {0, 1}          \* delay_minutes of a one-time task

DeadThread == [pc |-> "dead", seen |-> 0, pending |-> <<>>, nap |-> 0]

\* `if task_info['interval_minutes']:` -- None and 0 are both falsy.
IntervalTruthy(iv) == iv # NoInterval /\ iv # 0

NewTask(iv, delay) == [interval |-> iv, next_run |-> delay]

\* Entries of tasks_to_run that referred to the dictionary stored under id
\* lose it when that dictionary is replaced or deleted.
Detach(th, id) ==
    [t \in Threads |->
        [th[t] EXCEPT !.pending =
            [i \in 1..Len(th[t].pending) |->
                IF th[t].pending[i].id = id
                THEN [th[t].pending[i] EXCEPT !.live = FALSE]
                ELSE th[t].pending[i]]]]

\* The same for cancel_task, which the entries remember: cancelled tells
\* that the dictionary an entry refers to was deleted by cancel_task.
DetachCancelled(th, id) ==
    [t \in Threads |->
        [th[t] EXCEPT !.pending =
            [i \in 1..Len(th[t].pending) |->
                IF th[t].pending[i].id = id /\ th[t].pending[i].live
                THEN [th[t].pending[i] EXCEPT !.live = FALSE, !.cancelled = TRUE]
                ELSE th[t].pending[i]]]]

Remove(f, id) == [k \in (DOMAIN f) \ {id} |-> f[k]]
Put(f, id, v) == [k \in (DOMAIN f) \cup {id} |-> IF k = id THEN v ELSE f[k]]

\* TaskScheduler.__init__
InitSchedWith(calls) ==
    /\ running = FALSE
    /\ tasks = [k \in {} |-> NewTask(0, 0)]
    /\ thr = [t \in Threads |-> DeadThread]
    /\ starter = "idle"
    /\ budget = calls

InitSched == InitSchedWith(MaxApiCalls)
InitSchedLive == InitSchedWith(MaxLiveApiCalls)

\* A scheduler nobody uses.
InitSchedIdle == InitSchedWith(0)

\* schedule_recurring_task / schedule_one_time_task: a fresh dictionary is
\* stored under task_id, replacing whatever was there.
ScheduleInto(id, iv, delay) ==
    /\ tasks' = Put(tasks, id, NewTask(iv, delay))
    /\ thr' = Detach(thr, id)

\* start(): returns at once when already running; otherwise sets running,
\* starts a new loop thread and then schedules the two initial tasks.
Start ==
    /\ starter = "idle"
    /\ budget > 0
    /\ ~running
    /\ \E t \in Threads :
          /\ thr[t].pc = "dead"
          /\ \A u \in Threads : u < t => thr[u].pc # "dead"
          /\ thr' = [thr EXCEPT ![t] = [DeadThread EXCEPT !.pc = "loop"]]
    /\ running' = TRUE
    /\ starter' = "sched_scrape"
    /\ budget' = budget - 1
    /\ UNCHANGED tasks
    /\ UNCHANGED nonSchedVars

StartScheduleScrape ==
    /\ starter = "sched_scrape"
    /\ ScheduleInto("news_scraping", ScrapeInterval, ScrapeInterval)
    /\ starter' = "sched_cleanup"
    /\ UNCHANGED <<running, budget>>
    /\ UNCHANGED nonSchedVars

StartScheduleCleanup ==
    /\ starter = "sched_cleanup"
    /\ ScheduleInto("cleanup", CleanupInterval, CleanupInterval)
    /\ starter' = "idle"
    /\ UNCHANGED <<running, budget>>
    /\ UNCHANGED nonSchedVars

\* stop() up to the join: it clears running.
Stop ==
    /\ starter = "idle"
    /\ budget > 0
    /\ running
    /\ running' = FALSE
    /\ starter' = "join"
    /\ budget' = budget - 1
    /\ UNCHANGED <<tasks, thr>>
    /\ UNCHANGED nonSchedVars

\* A thread outlasts the 5 s of join(timeout=5) only inside a task's
\* function or inside time.sleep(60); every other position is left at once.
Lingers(t) == thr[t].pc \in {"dead", "call", "sleep"}

\* The join returns, whether or not the thread has ended, and so does
\* stop().
StopReturn ==
    /\ starter = "join"
    /\ \A t \in Threads : Lingers(t)
    /\ starter' = "idle"
    /\ UNCHANGED <<running, tasks, thr, budget>>
    /\ UNCHANGED nonSchedVars

ScheduleRecurring(id, iv) ==
    /\ starter = "idle"
    /\ budget > 0
    /\ ScheduleInto(id, iv, iv)
    /\ budget' = budget - 1
    /\ UNCHANGED <<running, starter>>
    /\ UNCHANGED nonSchedVars

ScheduleOneTime(id, delay) ==
    /\ starter = "idle"
    /\ budget > 0
    /\ ScheduleInto(id, NoInterval, delay)
    /\ budget' = budget - 1
    /\ UNCHANGED <<running, starter>>
    /\ UNCHANGED nonSchedVars

\* cancel_task(): deletes the entry and returns True; on an unknown id it
\* returns False and changes nothing.
CancelTask(id) ==
    /\ starter = "idle"
    /\ budget > 0
    /\ id \in DOMAIN tasks
    /\ tasks' = Remove(tasks, id)
    /\ thr' = DetachCancelled(thr, id)
    /\ budget' = budget - 1
    /\ UNCHANGED <<running, starter>>
    /\ UNCHANGED nonSchedVars

\* `while self.running:` followed by the sampling of current_time and the
\* start of the iteration over self.tasks.
LoopTest(t) ==
    /\ thr[t].pc = "loop"
    /\ thr' = [thr EXCEPT ![t] =
                 IF running
                 THEN [@ EXCEPT !.pc = "scan", !.seen = Cardinality(DOMAIN tasks)]
                 ELSE DeadThread]
    /\ UNCHANGED <<running, tasks, starter, budget>>
    /\ UNCHANGED nonSchedVars

Due(id) == id \in DOMAIN tasks /\ tasks[id].next_run <= 0

DueEntries ==
    LET ids == SelectSeq(TaskOrder, Due)
    IN [i \in 1..Len(ids) |->
           [id |-> ids[i], interval |-> tasks[ids[i]].interval, live |-> TRUE,
            cancelled |-> FALSE]]

AfterTick(pend) ==
    IF pend = <<>>
    THEN [pc |-> "sleep", seen |-> 0, pending |-> <<>>, nap |-> SleepTicks]
    ELSE [pc |-> "exec", seen |-> 0, pending |-> pend, nap |-> 0]

\* The end of the iteration over self.tasks.  A dictionary whose size
\* changed while it was iterated raises RuntimeError, which the loop's own
\* handler catches before sleeping.
ScanEnd(t) ==
    /\ thr[t].pc = "scan"
    /\ thr' = [thr EXCEPT ![t] =
                 IF Cardinality(DOMAIN tasks) # thr[t].seen
                 THEN AfterTick(<<>>)
                 ELSE AfterTick(DueEntries)]
    /\ UNCHANGED <<running, tasks, starter, budget>>
    /\ UNCHANGED nonSchedVars

\* _execute_task up to the call of the task's function.
ExecBegin(t) ==
    /\ thr[t].pc = "exec"
    /\ thr' = [thr EXCEPT ![t].pc = "call"]
    /\ UNCHANGED <<running, tasks, starter, budget>>
    /\ UNCHANGED nonSchedVars

Reschedule(e) ==
    IF e.live THEN [tasks EXCEPT ![e.id].next_run = e.interval] ELSE tasks

\* The task's function returns normally (line 144 or 139 completes).
CallReturns(t) ==
    /\ thr[t].pc = "call"
    /\ thr' = [thr EXCEPT ![t].pc = "ret"]
    /\ UNCHANGED <<running, tasks, starter, budget>>
    /\ UNCHANGED nonSchedVars

\* The task's function raises an Exception.
CallRaises(t) ==
    /\ thr[t].pc = "call"
    /\ thr' = [thr EXCEPT ![t].pc = "exc"]
    /\ UNCHANGED <<running, tasks, starter, budget>>
    /\ UNCHANGED nonSchedVars

\* After a normal return: a recurring task is rescheduled, a one-time task
\* is deleted from self.tasks by its id (a KeyError when the id is gone
\* lands in the handler, which does nothing for a falsy interval).
ExecReturn(t) ==
    /\ thr[t].pc = "ret"
    /\ LET e == Head(thr[t].pending)
           rest == Tail(thr[t].pending)
       IN IF IntervalTruthy(e.interval)
          THEN /\ tasks' = Reschedule(e)
               /\ thr' = [thr EXCEPT ![t] = AfterTick(rest)]
          ELSE /\ tasks' = Remove(tasks, e.id)
               /\ thr' = Detach([thr EXCEPT ![t] = AfterTick(rest)], e.id)
    /\ UNCHANGED <<running, starter, budget>>
    /\ UNCHANGED nonSchedVars

\* A handler that lets the exception escape: the loop thread ends.
ExecRaisePropagates(t) ==
    /\ thr[t].pc = "exc"
    /\ thr' = [thr EXCEPT ![t] = DeadThread]
    /\ UNCHANGED <<running, tasks, starter, budget>>
    /\ UNCHANGED nonSchedVars

\* The handler of _execute_task: it reschedules a task whose interval is
\* truthy and leaves every other task as it is; the loop goes on.
ExecRaise(t) ==
    /\ thr[t].pc = "exc"
    /\ LET e == Head(thr[t].pending)
           rest == Tail(thr[t].pending)
       IN /\ tasks' = IF IntervalTruthy(e.interval) THEN Reschedule(e) ELSE tasks
          /\ thr' = [thr EXCEPT ![t] = AfterTick(rest)]
    /\ UNCHANGED <<running, starter, budget>>
    /\ UNCHANGED nonSchedVars

\* time.sleep(60) returns.
Wake(t) ==
    /\ thr[t].pc = "sleep"
    /\ thr[t].nap = 0
    /\ thr' = [thr EXCEPT ![t].pc = "loop"]
    /\ UNCHANGED <<running, tasks, starter, budget>>
    /\ UNCHANGED nonSchedVars

\* One tick of time passes.  The scan of self.tasks takes no time on the
\* scale of a tick.
Advance ==
    /\ \A t \in Threads : thr[t].pc # "scan"
    /\ tasks' = [k \in DOMAIN tasks |->
                   [tasks[k] EXCEPT !.next_run = Max(@ - 1, Late)]]
    /\ thr' = [t \in Threads |-> [thr[t] EXCEPT !.nap = Max(@ - 1, 0)]]
    /\ UNCHANGED <<running, starter, budget>>
    /\ UNCHANGED nonSchedVars

ThreadStep(t) ==
    \/ LoopTest(t)
    \/ ScanEnd(t)
    \/ ExecBegin(t)
    \/ CallReturns(t)
    \/ CallRaises(t)
    \/ ExecReturn(t)
    \/ ExecRaise(t)
    \/ Wake(t)

SchedStep ==
    \/ Start
    \/ StartScheduleScrape
    \/ StartScheduleCleanup
    \/ Stop
    \/ StopReturn
    \/ \E id \in ApiTaskIds, iv \in Intervals : ScheduleRecurring(id, iv)
    \/ \E id \in ApiTaskIds, d \in Delays : ScheduleOneTime(id, d)
    \/ \E id \in TaskIds : CancelTask(id)
    \/ \E t \in Threads : ThreadStep(t)
    \/ Advance


(***************************************************************************)
(*                 PART II -- the news pipeline and its store              *)
(*                                                                         *)
(* An article is its identifier and its published_date.  The identifier is *)
(* the md5 of link and title, so a later fetch of the same entry has the   *)
(* same id and may carry another date.  published_date is NoDate for the   *)
(* None the fetcher emits for an entry without a date, otherwise the rank  *)
(* of its ISO string: the fetcher writes every date in UTC with the same   *)
(* layout, so the strings order as the instants do.  Date 1 is older than  *)
(* the 30 day cutoff of the cleanup, date 2 is newer.                      *)
(* The cap of 1000 stored articles is scaled down to StoreCap.             *)
(***************************************************************************)
StoreCap == 2          \* all_articles[:1000], scaled
MaxArticleId == 3      \* distinct entries the feeds can carry
NoDate == 0            \* published_date = None
CutoffDate == 1        \* now - 30 days: dates above it are newer

ArticleIds == 1..MaxArticleId
Dates == {NoDate, 1, 2}
FetchLens == 0..2      \* entries returned by the feeds in one run
Articles == [id : ArticleIds, published_date : Dates]

Range(seq) == {seq[i] : i \in 1..Len(seq)}
IdsOf(seq) == {seq[i].id : i \in 1..Len(seq)}
Take(seq, n) == SubSeq(seq, 1, Min(n, Len(seq)))

RawBatches == UNION {[1..n -> Articles] : n \in FetchLens}

\* fetch_all_feeds: the concatenated feed results, first article of each id.
RECURSIVE FetchAllFeeds(_)
FetchAllFeeds(raw) ==
    IF raw = <<>> THEN <<>>
    ELSE LET front == FetchAllFeeds(SubSeq(raw, 1, Len(raw) - 1))
             a == raw[Len(raw)]
         IN IF a.id \in IdsOf(front) THEN front ELSE Append(front, a)

\* _process_articles: the articles the processor keeps and finds relevant;
\* `relevant` is the set of ids whose relevance_score reaches min_score.
\* The order by relevance is an order on the fetched batch, which is
\* already arbitrary.
ProcessArticles(batch, relevant) ==
    LET Keep(a) == a.id \in relevant IN SelectSeq(batch, Keep)

\* What steps 1 and 2 of a pipeline run can hand on: the processed articles
\* of every fetch result and every outcome of the relevance scoring.
ProcessedBatches ==
    {ProcessArticles(FetchAllFeeds(raw), relevant) :
        raw \in RawBatches, relevant \in SUBSET ArticleIds}

\* list.sort compares the keys pairwise; a None key next to any other key
\* raises TypeError ('<' not supported), and a list of fewer than two
\* elements is never compared.
SortRaises(seq) ==
    Len(seq) >= 2 /\ \E i \in 1..Len(seq) : seq[i].published_date = NoDate

\* Stable insertion behind every element whose key is not smaller: the
\* order list.sort(key=..., reverse=True) produces.
InsertDesc(sorted, a) ==
    LET ahead == {i \in 1..Len(sorted) :
                     sorted[i].published_date >= a.published_date}
        k == IF ahead = {} THEN 0
             ELSE CHOOSE i \in ahead : \A j \in ahead : j <= i
    IN SubSeq(sorted, 1, k) \o <<a>> \o SubSeq(sorted, k + 1, Len(sorted))

RECURSIVE SortByDateDesc(_)
SortByDateDesc(seq) ==
    IF seq = <<>> THEN <<>>
    ELSE InsertDesc(SortByDateDesc(SubSeq(seq, 1, Len(seq) - 1)), seq[Len(seq)])

\* Keeps every incoming article: no check against the stored ids.
NewArticlesUnfiltered(existing, articles) == articles

\* _save_articles: the incoming articles whose id is not stored yet.
NewArticles(existing, articles) ==
    LET Fresh(a) == a.id \notin IdsOf(existing) IN SelectSeq(articles, Fresh)

\* _save_articles: sort by published_date, newest first, keep StoreCap.
KeepLatest(all) == Take(SortByDateDesc(all), StoreCap)

\* storage.save_articles: the file is written, or open() fails and the file
\* stays, or the dump fails after open() has truncated the file, which
\* load_articles then reads as no articles.
WriteOutcomes == {"written", "not_opened", "truncated"}

\* _save_articles as a whole: the list the file holds afterwards and how the
\* call ended.  An exception (the sort's TypeError, a failed write) is
\* caught and logged.
SaveArticlesResult(existing, articles, write) ==
    LET new == NewArticles(existing, articles)
        all == existing \o new
    IN IF new = <<>> THEN [articles |-> existing, how |-> "no_new"]
       ELSE IF SortRaises(all) THEN [articles |-> existing, how |-> "sort_error"]
       ELSE IF write = "not_opened" THEN [articles |-> existing, how |-> "io_error"]
       ELSE IF write = "truncated" THEN [articles |-> <<>>, how |-> "io_error"]
       ELSE [articles |-> KeepLatest(all), how |-> "saved"]

\* Every date of the store was written by the fetcher with a UTC offset;
\* datetime.fromisoformat makes it an aware datetime.
TzAware(d) == d # NoDate

\* cleanup_old_data: whether an article stays.  datetime.now() is naive, and
\* comparing an aware datetime with it raises TypeError, which the bare
\* except answers by keeping the article.
CleanupKeeps(a) ==
    IF a.published_date # NoDate
    THEN IF TzAware(a.published_date) THEN TRUE
         ELSE a.published_date > CutoffDate
    ELSE TRUE

\* _save_articles is handed an article whose id is stored already, in a copy
\* that differs from the stored one.
Refetched(existing, articles) ==
    \E a \in Range(articles) : a.id \in IdsOf(existing) /\ a \notin Range(existing)

\* No run in progress; last tells how the last save step or cleanup ended,
\* refetched whether the save was handed another copy of a stored article
\* and orphaned whether the cleanup found a summary without its article.
IdleRun(how, refetched) ==
    [pc |-> "idle", batch |-> <<>>, last |-> how, refetched |-> refetched,
     orphaned |-> FALSE]

CleanedRun(how, orphaned) == [IdleRun(how, FALSE) EXCEPT !.orphaned = orphaned]

InitStore ==
    /\ store = <<>>
    /\ summaries = {}
    /\ run = IdleRun("none", FALSE)

\* scrape_and_process_news, steps 1 and 2: it returns early when nothing
\* was scraped or nothing passed the processing.
StartPipeline(processed) ==
    /\ run.pc \in {"idle", "cleared"}
    /\ run' = IF processed = <<>>
              THEN IdleRun("none", FALSE)
              ELSE [IdleRun("none", FALSE) EXCEPT
                       !.pc = "summarize", !.batch = processed]
    /\ UNCHANGED <<store, summaries>>
    /\ UNCHANGED nonStoreVars

\* _generate_summaries: the LLM yields a summary for some of the articles
\* that have none yet, and _save_summaries adds them to the map.
GenerateSummaries(done) ==
    /\ run.pc = "summarize"
    /\ done \subseteq (IdsOf(run.batch) \ summaries)
    /\ summaries' = summaries \cup done
    /\ run' = [run EXCEPT !.pc = "save"]
    /\ UNCHANGED store
    /\ UNCHANGED nonStoreVars

\* _save_articles
SaveArticles(write) ==
    /\ run.pc = "save"
    /\ LET r == SaveArticlesResult(store, run.batch, write)
       IN /\ store' = r.articles
          /\ run' = IdleRun(r.how, Refetched(store, run.batch))
    /\ UNCHANGED summaries
    /\ UNCHANGED nonStoreVars

\* A cleanup that writes the summaries back as it loaded them.
FilteredSummariesAll(loaded, filtered) == loaded

\* cleanup_old_data: the summaries whose key is the id of a kept article.
FilteredSummaries(loaded, filtered) == loaded \cap IdsOf(filtered)

\* What a file holds after a save of `new` over `old` that ends as `write`;
\* a truncated file loads as the empty collection `none`.
Written(old, new, none, write) ==
    IF write = "written" THEN new
    ELSE IF write = "truncated" THEN none
    ELSE old

\* cleanup_old_data: both files are rewritten from the filtered lists,
\* articles first.  A failed save raises; the handler of the task logs it,
\* and a failed save of the articles leaves the summaries file untouched.
Cleanup(write_articles, write_summaries) ==
    /\ run.pc = "idle"
    /\ LET filtered == SelectSeq(store, CleanupKeeps)
           kept == FilteredSummaries(summaries, filtered)
       IN /\ store' = Written(store, filtered, <<>>, write_articles)
          /\ summaries' = IF write_articles = "written"
                          THEN Written(summaries, kept, {}, write_summaries)
                          ELSE summaries
    /\ run' = CleanedRun(IF write_articles = "written" /\ write_summaries = "written"
                         THEN "cleaned" ELSE "cleanup_error",
                         ~(summaries \subseteq IdsOf(store)))
    /\ UNCHANGED nonStoreVars

\* force_refresh: both files are emptied, then the pipeline runs.
ForceRefreshClear ==
    /\ run.pc = "idle"
    /\ store' = <<>>
    /\ summaries' = {}
    /\ run' = [IdleRun("none", FALSE) EXCEPT !.pc = "cleared"]
    /\ UNCHANGED nonStoreVars

StoreStep ==
    \/ \E processed \in ProcessedBatches : StartPipeline(processed)
    \/ \E done \in SUBSET IdsOf(run.batch) : GenerateSummaries(done)
    \/ \E write \in WriteOutcomes : SaveArticles(write)
    \/ \E write_articles \in WriteOutcomes, write_summaries \in WriteOutcomes :
          Cleanup(write_articles, write_summaries)
    \/ ForceRefreshClear


(***************************************************************************)
(*                 PART III -- utils.helpers.merge_articles               *)
(*                                                                         *)
(* A pure function of two lists.  An article is again its id and its       *)
(* published_date; NoId stands for an article without an id (get('id') is  *)
(* None).                                                                  *)
(***************************************************************************)
MaxMergeId == 2        \* ids an argument of merge_articles can carry
NoId == 0              \* article.get('id') = None

MergeIds == NoId..MaxMergeId
MergeLens == 0..2
MergeArticles == [id : MergeIds, published_date : Dates]
MergeBatches == UNION {[1..n -> MergeArticles] : n \in MergeLens}

\* existing_ids: the truthy ids of the existing articles.
ExistingIds(existing) == IdsOf(existing) \ {NoId}

\* merge_articles: the value returned, or the TypeError of the sort.
MergeArticlesResult(existing, new) ==
    IF existing = <<>> THEN [how |-> "returned", articles |-> new]
    ELSE IF new = <<>> THEN [how |-> "returned", articles |-> existing]
    ELSE LET Absent(a) == a.id \notin ExistingIds(existing)
             merged == existing \o SelectSeq(new, Absent)
         IN IF SortRaises(merged)
            THEN [how |-> "type_error", articles |-> <<>>]
            ELSE [how |-> "returned", articles |-> SortByDateDesc(merged)]

NoMerge == [existing |-> <<>>, new |-> <<>>, how |-> "none", articles |-> <<>>]

InitMergeIdle == merge = NoMerge

InitMerge ==
    \E existing \in MergeBatches : \E new \in MergeBatches :
        merge = [existing |-> existing, new |-> new,
                 how |-> "pending", articles |-> <<>>]

CallMergeArticles ==
    /\ merge.how = "pending"
    /\ LET r == MergeArticlesResult(merge.existing, merge.new)
       IN merge' = [merge EXCEPT !.how = r.how, !.articles = r.articles]
    /\ UNCHANGED nonMergeVars


(***************************************************************************)
(*             PART IV -- SimpleLLMConnector.rank_articles                *)
(*                                                                         *)
(* articles_dict is a dict keyed by title, so the input is a sequence of   *)
(* articles with pairwise distinct titles, in insertion order.  The        *)
(* details of an article are reduced to the score _heuristic_sort gives    *)
(* it.  The model's answer is an error of the call, a text without JSON, a *)
(* JSON value without a list under "ranked", or such a list; an item of    *)
(* the list is something that is no dict, or a dict with a title (possibly *)
(* one of no input article) and a score int() accepts or rejects.          *)
(***************************************************************************)
MaxTitle == 3          \* titles 1..MaxTitle can be in the input
DefaultScore == 5      \* score of an article the model did not rank
NoTopN == -1           \* top_n = None

InputTitles == 1..MaxTitle
UnknownTitle == MaxTitle + 1
HeuristicScores == {0, 1}
ModelScores == {0, 5, 11}
RankedLens == 0..2
TopNs == {NoTopN, 0, 2}

RankInputs ==
    {a \in UNION {[1..n -> [title : InputTitles, heuristic : HeuristicScores]] :
                     n \in 0..MaxTitle} :
        \A i, j \in 1..Len(a) : i # j => a[i].title # a[j].title}

RankedItems ==
    [kind : {"dict"}, title : InputTitles \cup {UnknownTitle},
     score : ModelScores, int_ok : {TRUE}]
    \cup [kind : {"dict"}, title : InputTitles \cup {UnknownTitle},
          score : {DefaultScore}, int_ok : {FALSE}]
    \cup [kind : {"other"}, title : {UnknownTitle},
          score : {DefaultScore}, int_ok : {FALSE}]

Responses ==
    [kind : {"error", "no_json", "no_ranked_list"}, ranked : {<<>>}]
    \cup [kind : {"ranked"},
          ranked : UNION {[1..n -> RankedItems] : n \in RankedLens}]

TitlesOf(articles) == [i \in 1..Len(articles) |-> articles[i].title]
TitleSet(articles) == {articles[i].title : i \in 1..Len(articles)}

\* The items of the list that reach the assignment to rank_map: dicts whose
\* title is a key of articles_dict.
Judged(articles, ranked) ==
    LET Known(item) == item.kind = "dict" /\ item.title \in TitleSet(articles)
    IN SelectSeq(ranked, Known)

\* The keys of rank_map in insertion order: a title is inserted when it is
\* first assigned.
RECURSIVE RankMapKeys(_)
RankMapKeys(judged) ==
    IF judged = <<>> THEN <<>>
    ELSE LET front == RankMapKeys(SubSeq(judged, 1, Len(judged) - 1))
             t == judged[Len(judged)].title
         IN IF \E i \in 1..Len(front) : front[i] = t THEN front
            ELSE Append(front, t)

\* rank_map[title]["score"]: the last assignment wins.
RankMapScore(judged, t) ==
    LET at == {i \in 1..Len(judged) : judged[i].title = t}
    IN judged[CHOOSE i \in at : \A j \in at : j <= i].score

\* Stable insertion behind every title whose score is not smaller.
InsertByScore(sorted, t, judged) ==
    LET ahead == {i \in 1..Len(sorted) :
                     RankMapScore(judged, sorted[i]) >= RankMapScore(judged, t)}
        k == IF ahead = {} THEN 0
             ELSE CHOOSE i \in ahead : \A j \in ahead : j <= i
    IN SubSeq(sorted, 1, k) \o <<t>> \o SubSeq(sorted, k + 1, Len(sorted))

RECURSIVE SortByScoreDesc(_, _)
SortByScoreDesc(keys, judged) ==
    IF keys = <<>> THEN <<>>
    ELSE InsertByScore(SortByScoreDesc(SubSeq(keys, 1, Len(keys) - 1), judged),
                       keys[Len(keys)], judged)

\* Leaves the judged titles in the order the model listed them.
JudgedTitlesUnsorted(judged) == RankMapKeys(judged)

\* sorted(rank_map.keys(), key=score, reverse=True)
JudgedTitles(judged) == SortByScoreDesc(RankMapKeys(judged), judged)

\* Appends nothing for the titles the model left out.
NoMissingTitles(articles, judged) == <<>>

\* The titles of the input that rank_map lacks, in input order.
MissingTitles(articles, judged) ==
    LET keys == RankMapKeys(judged)
        Lacks(t) == \A i \in 1..Len(keys) : keys[i] # t
    IN SelectSeq(TitlesOf(articles), Lacks)

\* `if top_n:` is a test for truth: None and 0 both fail it.
TopNTruthy(top_n) == top_n # NoTopN /\ top_n # 0

TopN(seq, top_n) == IF TopNTruthy(top_n) THEN Take(seq, top_n) ELSE seq

ArticleOf(articles, t) ==
    articles[CHOOSE i \in 1..Len(articles) : articles[i].title = t]

\* The try block raises: the call fails, nothing parses, there is no list
\* under "ranked", or int() rejects the score of a judged item.
LlmPathRaises(articles, response) ==
    \/ response.kind # "ranked"
    \/ \E i \in 1..Len(Judged(articles, response.ranked)) :
          ~Judged(articles, response.ranked)[i].int_ok

LlmRanking(articles, response, top_n) ==
    LET judged == Judged(articles, response.ranked)
        first == JudgedTitles(judged)
        rest == MissingTitles(articles, judged)
        titles == TopN(first \o rest, top_n)
        Entry(t) ==
            IF \E i \in 1..Len(first) : first[i] = t
            THEN [title |-> t, heuristic |-> ArticleOf(articles, t).heuristic,
                  judge_score |-> RankMapScore(judged, t), judge_reason |-> "model"]
            ELSE [title |-> t, heuristic |-> ArticleOf(articles, t).heuristic,
                  judge_score |-> DefaultScore, judge_reason |-> "generic"]
    IN [i \in 1..Len(titles) |-> Entry(titles[i])]

\* Stable insertion behind every article whose heuristic score is not
\* smaller.
InsertByHeuristic(sorted, a) ==
    LET ahead == {i \in 1..Len(sorted) : sorted[i].heuristic >= a.heuristic}
        k == IF ahead = {} THEN 0
             ELSE CHOOSE i \in ahead : \A j \in ahead : j <= i
    IN SubSeq(sorted, 1, k) \o <<a>> \o SubSeq(sorted, k + 1, Len(sorted))

RECURSIVE HeuristicSort(_)
HeuristicSort(articles) ==
    IF articles = <<>> THEN <<>>
    ELSE InsertByHeuristic(HeuristicSort(SubSeq(articles, 1, Len(articles) - 1)),
                           articles[Len(articles)])

\* Reports the heuristic score as the judge score.
FallbackRankingScored(articles, top_n) ==
    LET items == TopN(HeuristicSort(articles), top_n)
    IN [i \in 1..Len(items) |->
          [title |-> items[i].title, heuristic |-> items[i].heuristic,
           judge_score |-> items[i].heuristic, judge_reason |-> "heuristic"]]

FallbackRanking(articles, top_n) ==
    LET items == TopN(HeuristicSort(articles), top_n)
    IN [i \in 1..Len(items) |->
          [title |-> items[i].title, heuristic |-> items[i].heuristic,
           judge_score |-> DefaultScore, judge_reason |-> "heuristic"]]

\* rank_articles: the ranked dict in insertion order, and the path taken.
RankArticles(articles, response, top_n) ==
    IF articles = <<>> THEN [path |-> "empty", result |-> <<>>]
    ELSE IF LlmPathRaises(articles, response)
    THEN [path |-> "fallback", result |-> FallbackRanking(articles, top_n)]
    ELSE [path |-> "llm", result |-> LlmRanking(articles, response, top_n)]

NoRanking ==
    [articles |-> <<>>, top_n |-> NoTopN,
     response |-> [kind |-> "error", ranked |-> <<>>],
     path |-> "none", result |-> <<>>]

InitRankIdle == ranking = NoRanking

InitRank ==
    \E articles \in RankInputs : \E top_n \in TopNs :
        ranking = [NoRanking EXCEPT !.articles = articles, !.top_n = top_n,
                                    !.path = "pending"]

\* One call of rank_articles; the model answers with `response`.
CallRankArticles(response) ==
    /\ ranking.path = "pending"
    /\ LET r == RankArticles(ranking.articles, response, ranking.top_n)
       IN ranking' = [ranking EXCEPT !.response = response,
                                     !.path = r.path, !.result = r.result]
    /\ UNCHANGED nonRankVars



(***************************************************************************)
(*        PART V -- rank_articles on the fallback path, over time          *)
(*                                                                         *)
(* Here the details of an article are kept: its published_at and the       *)
(* length of its summary, from which _heuristic_sort computes the score.   *)
(* Time is counted in units of 12 hours, so that the recency component     *)
(* 10 - age_hours / 12 is 10 - age, and summary lengths are multiples of   *)
(* 100, so that min(len, 300) / 100 is an integer as well.  published_at   *)
(* is an ISO string without offset ("naive"), one with an offset, as       *)
(* datetime.isoformat() writes it for an aware datetime ("aware"), or      *)
(* something datetime.fromisoformat rejects ("invalid").                   *)
(***************************************************************************)
MaxClock == 8          \* time units a behaviour can span
FloorScore == 0        \* max(0.0, ...) and the except branch of score_item
FullRecency == 10      \* the 10.0 of the recency component
RichnessCap == 300     \* min(len(summary), 300)
RichnessUnit == 100    \* ... / 100.0

FallbackTitles == 1..2
PublishedAts ==
    [kind : {"naive", "aware"}, at : {-FullRecency, 0}]
    \cup [kind : {"invalid"}, at : {0}]
SummaryLens == {0, RichnessCap}
DetailedArticles ==
    [title : FallbackTitles, published_at : PublishedAts, summary_len : SummaryLens]

FallbackInputs ==
    {a \in UNION {[1..n -> DetailedArticles] : n \in 1..2} :
        \A i, j \in 1..Len(a) : i # j => a[i].title # a[j].title}

\* age_hours = max((datetime.now() - published_dt).total_seconds() / 3600, 0)
AgeAt(published_at, now) == Max(now - published_at.at, 0)

\* date_score: datetime.now() is naive, so the subtraction raises TypeError
\* for an aware published_dt; that and a string fromisoformat rejects end in
\* the except branch.
DateScore(published_at, now) ==
    IF published_at.kind = "naive"
    THEN Max(FloorScore, FullRecency - AgeAt(published_at, now))
    ELSE FloorScore

SummaryScore(len) == Min(len, RichnessCap) \div RichnessUnit

\* score_item
ScoreItem(a, now) == DateScore(a.published_at, now) + SummaryScore(a.summary_len)

\* The articles as PART IV sees them: title and heuristic score.
Scored(articles, now) ==
    [i \in 1..Len(articles) |->
        [title |-> articles[i].title, heuristic |-> ScoreItem(articles[i], now)]]

ModelFails == [kind |-> "error", ranked |-> <<>>]

InitFallbackIdle == fallback = [articles |-> <<>>, clock |-> 0, calls |-> <<>>]

InitFallback ==
    \E articles \in FallbackInputs :
        fallback = [articles |-> articles, clock |-> 0, calls |-> <<>>]

\* Half a day passes.
ClockTick ==
    /\ fallback.clock < MaxClock
    /\ fallback' = [fallback EXCEPT !.clock = @ + 1]
    /\ UNCHANGED nonFallbackVars

\* rank_articles(articles) while the model call raises.
CallRankFailing ==
    /\ Len(fallback.calls) < 2
    /\ LET r == RankArticles(Scored(fallback.articles, fallback.clock),
                             ModelFails, NoTopN)
       IN fallback' = [fallback EXCEPT
                         !.calls = Append(@, [at |-> fallback.clock,
                                              path |-> r.path,
                                              result |-> r.result])]
    /\ UNCHANGED nonFallbackVars



(***************************************************************************)
(*            PART VI -- NewsProcessor._categorize_article                 *)
(*                                                                         *)
(* The text of an article is reduced to the number of keywords of each     *)
(* category that occur in it, and to whether its title is empty.  Three of *)
(* the eight categories are kept, in the order of self.keywords.           *)
(***************************************************************************)
MaxMatches == 2        \* keywords of one category found in one article
ConfidentMatches == 2  \* return matches >= 2

CategoryOrder == <<"technology", "business", "science">>
Categories == {CategoryOrder[i] : i \in 1..Len(CategoryOrder)}
NoCategory == "none"           \* None
DefaultCategory == "other"
MatchCounts == [Categories -> 0..MaxMatches]

\* What the model call inside LLMService can do: raise (a timeout
\* included), answer nothing, or answer a text.
LlmAnswers ==
    [kind : {"raises", "empty"}, text : {""}]
    \cup [kind : {"text"}, text : Categories \cup {"misc"}]

\* _keyword_categorization: the category with the highest positive score;
\* max() returns the first of several maxima in the order of the dict.
KeywordCategorization(matches) ==
    LET scored == {i \in 1..Len(CategoryOrder) : matches[CategoryOrder[i]] > 0}
        best == {i \in scored :
                    \A j \in scored : matches[CategoryOrder[j]] <= matches[CategoryOrder[i]]}
    IN IF scored = {} THEN NoCategory
       ELSE CategoryOrder[CHOOSE i \in best : \A j \in best : i <= j]

\* Confident with a single match already.
IsKeywordConfidentLoose(matches, category) ==
    category \in Categories /\ matches[category] >= 1

\* _is_keyword_confident
IsKeywordConfident(matches, category) ==
    category \in Categories /\ matches[category] >= ConfidentMatches

\* LLMService.categorize_article: None for an empty title, without a model
\* call; None when the call raises or answers nothing; otherwise the
\* trimmed, lowercased answer.
AiCategory(title_empty, answer) ==
    IF title_empty \/ answer.kind # "text" THEN NoCategory ELSE answer.text

\* Returns the keyword category as it is, None included.
FallbackCategoryNoDefault(keyword_category) == keyword_category

\* return keyword_category or 'other'
FallbackCategory(keyword_category) ==
    IF keyword_category # NoCategory THEN keyword_category ELSE DefaultCategory

NoCategorization ==
    [matches |-> [c \in Categories |-> 0], title_empty |-> FALSE, pc |-> "none",
     keyword_category |-> NoCategory, asked |-> FALSE,
     answer |-> [kind |-> "empty", text |-> ""], result |-> NoCategory]

InitCategIdle == categ = NoCategorization

InitCateg ==
    \E matches \in MatchCounts : \E title_empty \in BOOLEAN :
        categ = [NoCategorization EXCEPT !.matches = matches,
                                         !.title_empty = title_empty,
                                         !.pc = "keywords"]

\* _categorize_article up to the test of the keyword confidence.
CategorizeByKeywords ==
    /\ categ.pc = "keywords"
    /\ LET kc == KeywordCategorization(categ.matches)
       IN categ' = IF kc # NoCategory /\ IsKeywordConfident(categ.matches, kc)
                   THEN [categ EXCEPT !.keyword_category = kc, !.pc = "done",
                                      !.result = kc]
                   ELSE [categ EXCEPT !.keyword_category = kc, !.pc = "ai"]
    /\ UNCHANGED nonCategVars

\* The call of llm_service.categorize_article and what follows it.
CategorizeByAi(answer) ==
    /\ categ.pc = "ai"
    /\ LET ai == AiCategory(categ.title_empty, answer)
       IN categ' = [categ EXCEPT
                      !.asked = TRUE,
                      !.answer = answer,
                      !.pc = "done",
                      !.result = IF ai # NoCategory THEN ai
                                 ELSE FallbackCategory(categ.keyword_category)]
    /\ UNCHANGED nonCategVars



(***************************************************************************)
(*                  PART VII -- bot._send_long_message                     *)
(*                                                                         *)
(* A text is a sequence of characters: a letter, a space and a newline.    *)
(* The limit of 4000 characters per message is scaled to MessageLimit.     *)
(***************************************************************************)
MaxTextLen == 7        \* characters of a text
MessageLimit == 3      \* TELEGRAM_MESSAGE_LIMIT = 4000, scaled

Chars == {"a", "sp", "nl"}
Whitespace == {"sp", "nl"}
ParagraphSep == <<"nl", "nl">>
Texts == UNION {[1..n -> Chars] : n \in 0..MaxTextLen}

Slice(str, from, to) == SubSeq(str, from, Min(to, Len(str)))

\* str.strip()
Strip(str) ==
    LET solid == {i \in 1..Len(str) : str[i] \notin Whitespace}
    IN IF solid = {} THEN <<>>
       ELSE SubSeq(str, CHOOSE i \in solid : \A j \in solid : i <= j,
                        CHOOSE i \in solid : \A j \in solid : j <= i)

\* text.split("\n\n"): the separators are found from left to right.
RECURSIVE SplitParagraphs(_)
SplitParagraphs(str) ==
    LET seps == {i \in 1..(Len(str) - 1) : SubSeq(str, i, i + 1) = ParagraphSep}
    IN IF seps = {} THEN <<str>>
       ELSE LET k == CHOOSE i \in seps : \A j \in seps : i <= j
            IN <<SubSeq(str, 1, k - 1)>>
                  \o SplitParagraphs(SubSeq(str, k + 2, Len(str)))

\* for i in range(0, len(paragraph), LIMIT): paragraph[i:i + LIMIT]
RECURSIVE HardSplit(_)
HardSplit(paragraph) ==
    IF paragraph = <<>> THEN <<>>
    ELSE <<Slice(paragraph, 1, MessageLimit)>>
            \o HardSplit(SubSeq(paragraph, MessageLimit + 1, Len(paragraph)))

\* The loop over the paragraphs and the send after it; `sent` collects the
\* arguments of reply_text.
RECURSIVE ParagraphLoop(_, _, _)
ParagraphLoop(paragraphs, current_chunk, sent) ==
    IF paragraphs = <<>>
    THEN IF current_chunk # <<>> THEN Append(sent, current_chunk) ELSE sent
    ELSE LET paragraph == Head(paragraphs)
             candidate == IF current_chunk # <<>>
                          THEN Strip(current_chunk \o ParagraphSep \o paragraph)
                          ELSE paragraph
         IN IF Len(candidate) > MessageLimit
            THEN IF current_chunk # <<>>
                 THEN ParagraphLoop(Tail(paragraphs), paragraph,
                                    Append(sent, current_chunk))
                 ELSE ParagraphLoop(Tail(paragraphs), <<>>,
                                    sent \o HardSplit(paragraph))
            ELSE ParagraphLoop(Tail(paragraphs), candidate, sent)

\* _send_long_message: the messages sent, in order.
SendLongMessage(text) ==
    IF Len(text) <= MessageLimit THEN <<text>>
    ELSE ParagraphLoop(SplitParagraphs(text), <<>>, <<>>)

InitReplyIdle == reply = [text |-> <<>>, pc |-> "none", sent |-> <<>>]

InitReply == \E text \in Texts : reply = [text |-> text, pc |-> "call", sent |-> <<>>]

CallSendLongMessage ==
    /\ reply.pc = "call"
    /\ reply' = [reply EXCEPT !.pc = "done", !.sent = SendLongMessage(reply.text)]
    /\ UNCHANGED nonReplyVars



(***************************************************************************)
(*        PART VIII -- the command cooldown (bot._get_cooldown_remaining)  *)
(*                                                                         *)
(* time.monotonic() is counted in whole seconds and the cooldowns of 90    *)
(* and 180 seconds are scaled down.  The handlers run on one event loop    *)
(* and _get_cooldown_remaining does not await, so a call of it is one      *)
(* step.  `accepted` records, next to the map of the code, when each       *)
(* user's command was last processed.                                      *)
(***************************************************************************)
MaxTime == 4           \* seconds a behaviour can span
NewsCooldown == 2      \* NEWS_COMMAND_COOLDOWN_SECONDS = 90, scaled
SummaryCooldown == 3   \* SUMMARY_COMMAND_COOLDOWN_SECONDS = 180, scaled
NeverCalled == -1      \* _LAST_COMMAND_CALL.get(key) = None
NoUser == 0            \* update.effective_user = None

UserIds == {1, 2}
Commands == {"get_today_news", "latest_summary"}
CooldownKeys == UserIds \X Commands

CooldownOf(command) ==
    IF command = "get_today_news" THEN NewsCooldown ELSE SummaryCooldown

\* Lets a call through one second early.
CooldownRemainingEarly(last_called, now, cooldown_seconds) ==
    IF last_called = NeverCalled THEN 0
    ELSE IF cooldown_seconds - (now - last_called) > 1
         THEN cooldown_seconds - (now - last_called) + 1
         ELSE 0

\* The value _get_cooldown_remaining returns for a known user: 0 when the
\* call is allowed, otherwise int(remaining) + 1.
CooldownRemaining(last_called, now, cooldown_seconds) ==
    IF last_called = NeverCalled THEN 0
    ELSE IF cooldown_seconds - (now - last_called) > 0
         THEN cooldown_seconds - (now - last_called) + 1
         ELSE 0

\* Every check restarts the window, the rejecting ones too.
LastCallRestarted(last_called, now, remaining) == now

\* _LAST_COMMAND_CALL[key] after the check: set to now by a check that
\* allows the call, left alone by one that rejects it.
LastCall(last_called, now, remaining) ==
    IF remaining > 0 THEN last_called ELSE now

NoCommandCall ==
    [user |-> NoUser, command |-> "none", at |-> 0, remaining |-> 0,
     processed |-> FALSE]

InitCoolIdle ==
    cool = [last |-> [k \in CooldownKeys |-> NeverCalled],
            accepted |-> [k \in CooldownKeys |-> NeverCalled],
            now |-> 0, call |-> NoCommandCall]

InitCool == InitCoolIdle

\* A second passes.
CoolTick ==
    /\ cool.now < MaxTime
    /\ cool' = [cool EXCEPT !.now = @ + 1]
    /\ UNCHANGED nonCoolVars

\* get_today_news_cmd / latest_summary_cmd called by a known user: the
\* cooldown check, then the rejection message or the processing.
CommandCall(user, command) ==
    /\ LET key == <<user, command>>
           remaining == CooldownRemaining(cool.last[key], cool.now,
                                          CooldownOf(command))
       IN cool' = [cool EXCEPT
                     !.last[key] = LastCall(@, cool.now, remaining),
                     !.accepted[key] = IF remaining > 0 THEN @ ELSE cool.now,
                     !.call = [user |-> user, command |-> command,
                               at |-> cool.now, remaining |-> remaining,
                               processed |-> ~(remaining > 0)]]
    /\ UNCHANGED nonCoolVars

\* The same for an update without effective_user: the check returns 0
\* and touches nothing.
AnonymousCommandCall(command) ==
    /\ cool' = [cool EXCEPT
                  !.call = [user |-> NoUser, command |-> command,
                            at |-> cool.now, remaining |-> 0,
                            processed |-> TRUE]]
    /\ UNCHANGED nonCoolVars


(***************************************************************************)
(*                 PART IX -- RSSScraper.fetch_all_feeds                   *)
(*                                                                         *)
(* fetch_all_feeds starts one fetch_feed coroutine per enabled feed and     *)
(* gathers them; the coroutines interleave at their awaits.  What a source  *)
(* serves is the environment's choice: the outcome of the request, the      *)
(* bozo flag feedparser sets on a malformed document and, one per           *)
(* iteration of the loop, the entries it could read.  An entry is its       *)
(* title, link and author, each an attribute that is absent or a string,    *)
(* and its published_parsed (absent or a time) and updated_parsed (None    *)
(* or a time).  The numbers seen, valid, undated and unsigned of a feed count     *)
(* the entries as the source served them, and lost tells that a failed      *)
(* fetch had parsed articles; the code reads none of them.                  *)
(* The description of an entry is copied into the article and decides       *)
(* nothing; it is left out.                                                 *)
(***************************************************************************)
MaxEntries == 3        \* entries served by all sources during one call
NoTimeAttr == -1       \* hasattr(entry, 'published_parsed') is False

Feeds == {1, 2}
NoAttr == [has |-> FALSE, text |-> <<>>]
Attr(str) == [has |-> TRUE, text |-> str]
TitleAttrs == {Attr(<<"sp">>), Attr(<<"a", "sp">>)}
LinkAttrs == {NoAttr, Attr(<<"a">>), Attr(<<"sp", "a", "a">>)}
AuthorAttrs == {NoAttr, Attr(<<"a">>)}
PublishedTimes == {NoTimeAttr, 2}
UpdatedTimes == {NoDate, 2}

Entries ==
    [title : TitleAttrs, link : LinkAttrs, author : AuthorAttrs,
     published_parsed : PublishedTimes, updated_parsed : UpdatedTimes]

\* getattr(entry, name, default)
GetAttr(attr, default) == IF attr.has THEN attr.text ELSE default

\* `hasattr(entry, name) and entry.<name>`
TimeTruthy(time) == time # NoTimeAttr /\ time # NoDate

\* _parse_entry, the publication date: published_parsed, else
\* updated_parsed, else None.  The ISO string of a time is written in UTC
\* and stands for the time itself.
PublishedDate(entry) ==
    IF TimeTruthy(entry.published_parsed) THEN entry.published_parsed
    ELSE IF TimeTruthy(entry.updated_parsed) THEN entry.updated_parsed
    ELSE NoDate

\* _generate_article_id: the md5 of "link:title", taken to be injective.
GenerateArticleId(link, title) == <<link, title>>

\* Drops every entry that has no date.
ParseEntryDatedOnly(entry) ==
    LET title == Strip(GetAttr(entry.title, <<>>))
        link == Strip(GetAttr(entry.link, <<>>))
    IN IF title = <<>> \/ link = <<>> \/ PublishedDate(entry) = NoDate THEN <<>>
       ELSE <<[id |-> GenerateArticleId(link, title),
               published_date |-> PublishedDate(entry),
               author |-> Strip(GetAttr(entry.author, <<>>))]>>

\* _parse_entry: no article (the empty list) or the one article.
ParseEntry(entry) ==
    LET title == Strip(GetAttr(entry.title, <<>>))
        link == Strip(GetAttr(entry.link, <<>>))
    IN IF title = <<>> \/ link = <<>> THEN <<>>
       ELSE <<[id |-> GenerateArticleId(link, title),
               published_date |-> PublishedDate(entry),
               author |-> IF entry.author.has THEN Strip(entry.author.text)
                          ELSE <<>>]>>

\* The attribute is there and holds more than white space.
HasText(attr) ==
    attr.has /\ \E i \in 1..Len(attr.text) : attr.text[i] \notin Whitespace

HasTitleAndLink(entry) == HasText(entry.title) /\ HasText(entry.link)
HasNoDate(entry) ==
    ~TimeTruthy(entry.published_parsed) /\ ~TimeTruthy(entry.updated_parsed)

NoFetch(enabled) ==
    [enabled |-> enabled, pc |-> "idle", how |-> "none", bozo |-> FALSE,
     articles |-> <<>>, returned |-> <<>>, lost |-> FALSE,
     seen |-> 0, valid |-> 0, undated |-> 0, unsigned |-> 0]

InitScrapeWith(enabled) ==
    scrape = [pc |-> "idle", served |-> 0, result |-> <<>>,
              feed |-> [f \in Feeds |-> NoFetch(enabled[f])]]

InitScrapeIdle == InitScrapeWith([f \in Feeds |-> FALSE])

InitScrape == \E enabled \in [Feeds -> BOOLEAN] : InitScrapeWith(enabled)

\* A list of tasks that holds every feed, enabled or not.
TasksForAll(feed) == Feeds

\* tasks = [self.fetch_feed(feed) for feed in feeds if feed.enabled]
TasksFor(feed) == {f \in Feeds : feed[f].enabled}

\* The coroutines share one event loop: the loop over the entries has no
\* await, so no other coroutine runs while a feed is inside it.
MayRun(f) == \A g \in Feeds \ {f} : scrape.feed[g].pc # "parse"

\* fetch_all_feeds up to the gather.
CallFetchAllFeeds ==
    /\ scrape.pc = "idle"
    /\ scrape' = [scrape EXCEPT
                    !.pc = "gather",
                    !.feed = [f \in Feeds |->
                                IF f \in TasksFor(scrape.feed)
                                THEN [scrape.feed[f] EXCEPT !.pc = "get"]
                                ELSE scrape.feed[f]]]
    /\ UNCHANGED nonScrapeVars

\* session.get answers: with a status other than 200 fetch_feed returns [].
Respond(f, status_ok) ==
    /\ scrape.feed[f].pc = "get"
    /\ MayRun(f)
    /\ scrape' = [scrape EXCEPT
                    !.feed[f] = IF status_ok THEN [@ EXCEPT !.pc = "read"]
                                ELSE [@ EXCEPT !.pc = "done", !.how = "http_error"]]
    /\ UNCHANGED nonScrapeVars

\* response.text() returns and feedparser.parse reads it; a malformed
\* document sets bozo, which is logged, and the loop over the entries the
\* parser could read starts all the same.
ReadAndParse(f, bozo) ==
    /\ scrape.feed[f].pc = "read"
    /\ MayRun(f)
    /\ scrape' = [scrape EXCEPT !.feed[f].pc = "parse", !.feed[f].bozo = bozo]
    /\ UNCHANGED nonScrapeVars

Count(cond) == IF cond THEN 1 ELSE 0

\* One iteration of the loop over parsed_feed.entries.
ParseNext(f, entry) ==
    /\ scrape.feed[f].pc = "parse"
    /\ scrape.served < MaxEntries
    /\ scrape' = [scrape EXCEPT
          !.served = @ + 1,
          !.feed[f] = [@ EXCEPT
              !.articles = @ \o ParseEntry(entry),
              !.seen = @ + 1,
              !.valid = @ + Count(HasTitleAndLink(entry)),
              !.undated = @ + Count(HasTitleAndLink(entry) /\ HasNoDate(entry)),
              !.unsigned = @ + Count(HasTitleAndLink(entry) /\ ~HasText(entry.author))]]
    /\ UNCHANGED nonScrapeVars

\* The loop is over: fetch_feed returns the articles.
FeedReturns(f) ==
    /\ scrape.feed[f].pc = "parse"
    /\ scrape' = [scrape EXCEPT
                    !.feed[f] = [@ EXCEPT !.pc = "done", !.how = "ok",
                                          !.returned = scrape.feed[f].articles]]
    /\ UNCHANGED nonScrapeVars

\* An exception inside the try block (the request, the read of the body,
\* the release of the response): fetch_feed logs it and returns [].  The
\* local list of articles is gone; lost tells whether it held any.
FeedRaises(f) ==
    /\ scrape.feed[f].pc \in {"get", "read", "parse"}
    /\ MayRun(f)
    /\ scrape' = [scrape EXCEPT
                    !.feed[f] = [NoFetch(TRUE) EXCEPT
                                    !.pc = "done", !.how = "raised",
                                    !.lost = scrape.feed[f].articles # <<>>]]
    /\ UNCHANGED nonScrapeVars

\* all_articles: the lists the tasks returned, in the order of the feeds.
RECURSIVE AllArticles(_, _)
AllArticles(feed, f) ==
    IF f \notin Feeds THEN <<>>
    ELSE (IF feed[f].pc = "done" THEN feed[f].returned ELSE <<>>)
            \o AllArticles(feed, f + 1)

\* The gather is complete: the lists are concatenated and the first article
\* of each id is kept.
Gather ==
    /\ scrape.pc = "gather"
    /\ \A f \in Feeds : scrape.feed[f].pc \in {"idle", "done"}
    /\ scrape' = [scrape EXCEPT
                    !.pc = "returned",
                    !.result = FetchAllFeeds(AllArticles(scrape.feed, 1))]
    /\ UNCHANGED nonScrapeVars

ScrapeStep ==
    \/ CallFetchAllFeeds
    \/ \E f \in Feeds, status_ok \in BOOLEAN : Respond(f, status_ok)
    \/ \E f \in Feeds, bozo \in BOOLEAN : ReadAndParse(f, bozo)
    \/ \E f \in Feeds, entry \in Entries : ParseNext(f, entry)
    \/ \E f \in Feeds : FeedReturns(f)
    \/ \E f \in Feeds : FeedRaises(f)
    \/ Gather


(***************************************************************************)
(*      PART X -- articles.json under a writer and a reader thread          *)
(*                                                                         *)
(* The scheduler thread rewrites the file with storage.save_articles while  *)
(* a chat handler (cmd_news) reads it with storage.load_articles; neither    *)
(* takes a lock.  open(path, 'w') empties the file, and json.dump then       *)
(* writes the document piece by piece, so the file holds a prefix of the    *)
(* new document until the last piece is out.  A proper prefix of a JSON     *)
(* object is no JSON document.  A collection is the list of its article     *)
(* ids.  summaries.json is written and read in the same way.                *)
(***************************************************************************)
MaxRewrites == 2       \* calls of save_articles in one behaviour
DumpPieces == 2        \* writes that carry one document to the file

DiskIds == {1, 2}
Collections == UNION {[1..n -> DiskIds] : n \in 0..2}

NoLoad == [made |-> FALSE, during |-> FALSE, articles |-> <<>>,
           before |-> <<>>, after |-> <<>>]

InitDiskIdle ==
    disk = [exists |-> FALSE, data |-> <<>>, upto |-> DumpPieces,
            pc |-> "idle", before |-> <<>>, rewrites |-> MaxRewrites,
            load |-> NoLoad]

InitDisk ==
    disk = [exists |-> FALSE, data |-> <<>>, upto |-> DumpPieces,
            pc |-> "idle", before |-> <<>>, rewrites |-> 0,
            load |-> NoLoad]

\* save_articles up to `with open(file_path, 'w')`: the file is created or
\* emptied.
SaveArticlesOpen(articles) ==
    /\ disk.pc = "idle"
    /\ disk.rewrites < MaxRewrites
    /\ disk' = [disk EXCEPT !.exists = TRUE, !.data = articles, !.upto = 0,
                            !.pc = "dump", !.before = disk.data,
                            !.rewrites = @ + 1]
    /\ UNCHANGED nonDiskVars

\* json.dump: one more piece of the document reaches the file; after the
\* last one the file is closed and save_articles returns.
SaveArticlesDump ==
    /\ disk.pc = "dump"
    /\ disk' = [disk EXCEPT !.upto = @ + 1,
                            !.pc = IF disk.upto + 1 = DumpPieces
                                   THEN "idle" ELSE "dump"]
    /\ UNCHANGED nonDiskVars

\* load_articles: the default when the file does not exist, the stored
\* list when json.load can parse what the file holds, and the default
\* again when it cannot (the handler of line 72).
FileRead(file) ==
    IF ~file.exists THEN [how |-> "no_file", articles |-> <<>>]
    ELSE IF file.upto = DumpPieces THEN [how |-> "parsed", articles |-> file.data]
    ELSE [how |-> "decode_error", articles |-> <<>>]

\* cmd_news calls load_articles.
LoadArticles ==
    /\ disk' = [disk EXCEPT
                  !.load = [made |-> TRUE, during |-> disk.pc = "dump",
                            articles |-> FileRead(disk).articles,
                            before |-> disk.before, after |-> disk.data]]
    /\ UNCHANGED nonDiskVars

DiskStep ==
    \/ \E articles \in Collections : SaveArticlesOpen(articles)
    \/ SaveArticlesDump
    \/ LoadArticles


(***************************************************************************)
(*      PART XI -- the save-article callback and users.json                 *)
(*                                                                         *)
(* handle_save_article loads the user's record, appends the article id     *)
(* unless it is there, and saves the record; there is no await between the *)
(* load and the save, so one callback is one step of the event loop.       *)
(* save_user_preferences rewrites users.json as a whole from what           *)
(* load_all_users returns, and load_all_users returns an empty dict when   *)
(* the file is missing or cannot be parsed.  Callback data is a sequence   *)
(* of tokens, the first being the prefix "save_".  Timestamps are left     *)
(* out: a save changes last_updated of the saved record only.              *)
(***************************************************************************)
SaveToken == "save_"
CallbackData == {<<SaveToken, "a">>, <<SaveToken, "b">>,
                 <<SaveToken, SaveToken, "a">>}

\* callback_query.data.replace('save_', ''): every occurrence goes.
ReplaceSave(data) == SelectSeq(data, LAMBDA t : t # SaveToken)

DefaultPrefs == [saved_articles |-> <<>>, articles_saved |-> 0]

NoCallback == [user |-> 0, article_id |-> <<>>, answer |-> "none"]

InitPrefs ==
    prefs = [file |-> "absent", users |-> <<>>, last |-> NoCallback]

InitPrefsIdle == InitPrefs

\* load_all_users
LoadAllUsers(p) == IF p.file = "ok" THEN p.users ELSE <<>>

\* load_user_preferences
LoadUserPreferences(p, user_id) ==
    LET users_data == LoadAllUsers(p)
    IN IF user_id \in DOMAIN users_data THEN users_data[user_id]
       ELSE DefaultPrefs

\* save_user_preferences: the file afterwards.  open(..., 'w') empties the
\* file before json.dump writes; the call raises unless all was written.
SaveUserPreferences(p, user_id, preferences, write) ==
    LET users_data == Put(LoadAllUsers(p), user_id, preferences)
    IN IF write = "written" THEN [file |-> "ok", users |-> users_data]
       ELSE IF write = "truncated" THEN [file |-> "unreadable", users |-> <<>>]
       ELSE [file |-> p.file, users |-> p.users]

\* handle_save_article
HandleSaveArticle(user_id, data, write) ==
    LET article_id == ReplaceSave(data)
        user_prefs == LoadUserPreferences(prefs, user_id)
        saved_articles == user_prefs.saved_articles
        updated == [saved_articles |-> Append(saved_articles, article_id),
                    articles_saved |-> user_prefs.articles_saved + 1]
        saved == SaveUserPreferences(prefs, user_id, updated, write)
    IN /\ prefs' =
            IF article_id \notin Range(saved_articles)
            THEN [file |-> saved.file, users |-> saved.users,
                  last |-> [user |-> user_id, article_id |-> article_id,
                            answer |-> IF write = "written" THEN "saved"
                                       ELSE "error"]]
            ELSE [prefs EXCEPT
                    !.last = [user |-> user_id, article_id |-> article_id,
                              answer |-> "already_saved"]]
       /\ UNCHANGED nonPrefsVars

PrefsStep ==
    \E user_id \in UserIds, data \in CallbackData, write \in WriteOutcomes :
        HandleSaveArticle(user_id, data, write)


NextSched == SchedStep

InitSchedSpec ==
    /\ InitSched
    /\ InitStore
    /\ InitMergeIdle
    /\ InitRankIdle
    /\ InitFallbackIdle
    /\ InitCategIdle
    /\ InitReplyIdle
    /\ InitCoolIdle
    /\ InitScrapeIdle
    /\ InitDiskIdle
    /\ InitPrefsIdle

SpecSched == InitSchedSpec /\ [][NextSched]_vars

InitSchedLiveSpec ==
    /\ InitSchedLive
    /\ InitStore
    /\ InitMergeIdle
    /\ InitRankIdle
    /\ InitFallbackIdle
    /\ InitCategIdle
    /\ InitReplyIdle
    /\ InitCoolIdle
    /\ InitScrapeIdle
    /\ InitDiskIdle
    /\ InitPrefsIdle

\* The loop threads are scheduled by the operating system, a started call of
\* start() runs to its end, a task's function terminates and time passes.
SpecSchedLive ==
    /\ InitSchedLiveSpec
    /\ [][NextSched]_vars
    /\ WF_vars(Advance)
    /\ WF_vars(StartScheduleScrape)
    /\ WF_vars(StartScheduleCleanup)
    /\ WF_vars(StopReturn)
    /\ \A t \in Threads : WF_vars(ThreadStep(t))

NextStore == StoreStep

InitStoreSpec ==
    /\ InitSchedIdle
    /\ InitStore
    /\ InitMergeIdle
    /\ InitRankIdle
    /\ InitFallbackIdle
    /\ InitCategIdle
    /\ InitReplyIdle
    /\ InitCoolIdle
    /\ InitScrapeIdle
    /\ InitDiskIdle
    /\ InitPrefsIdle

SpecStore == InitStoreSpec /\ [][NextStore]_vars

NextMerge == CallMergeArticles

InitMergeSpec ==
    /\ InitSchedIdle
    /\ InitStore
    /\ InitMerge
    /\ InitRankIdle
    /\ InitFallbackIdle
    /\ InitCategIdle
    /\ InitReplyIdle
    /\ InitCoolIdle
    /\ InitScrapeIdle
    /\ InitDiskIdle
    /\ InitPrefsIdle

SpecMerge == InitMergeSpec /\ [][NextMerge]_vars

NextRank == \E response \in Responses : CallRankArticles(response)

InitRankSpec ==
    /\ InitSchedIdle
    /\ InitStore
    /\ InitMergeIdle
    /\ InitRank
    /\ InitFallbackIdle
    /\ InitCategIdle
    /\ InitReplyIdle
    /\ InitCoolIdle
    /\ InitScrapeIdle
    /\ InitDiskIdle
    /\ InitPrefsIdle

SpecRank == InitRankSpec /\ [][NextRank]_vars

NextFallback == ClockTick \/ CallRankFailing

InitFallbackSpec ==
    /\ InitSchedIdle
    /\ InitStore
    /\ InitMergeIdle
    /\ InitRankIdle
    /\ InitFallback
    /\ InitCategIdle
    /\ InitReplyIdle
    /\ InitCoolIdle
    /\ InitScrapeIdle
    /\ InitDiskIdle
    /\ InitPrefsIdle

SpecFallback == InitFallbackSpec /\ [][NextFallback]_vars

NextCateg ==
    \/ CategorizeByKeywords
    \/ \E answer \in LlmAnswers : CategorizeByAi(answer)

InitCategSpec ==
    /\ InitSchedIdle
    /\ InitStore
    /\ InitMergeIdle
    /\ InitRankIdle
    /\ InitFallbackIdle
    /\ InitCateg
    /\ InitReplyIdle
    /\ InitCoolIdle
    /\ InitScrapeIdle
    /\ InitDiskIdle
    /\ InitPrefsIdle

SpecCateg == InitCategSpec /\ [][NextCateg]_vars

NextReply == CallSendLongMessage

InitReplySpec ==
    /\ InitSchedIdle
    /\ InitStore
    /\ InitMergeIdle
    /\ InitRankIdle
    /\ InitFallbackIdle
    /\ InitCategIdle
    /\ InitReply
    /\ InitCoolIdle
    /\ InitScrapeIdle
    /\ InitDiskIdle
    /\ InitPrefsIdle

SpecReply == InitReplySpec /\ [][NextReply]_vars

NextCool ==
    \/ CoolTick
    \/ \E user \in UserIds, command \in Commands : CommandCall(user, command)
    \/ \E command \in Commands : AnonymousCommandCall(command)

InitCoolSpec ==
    /\ InitSchedIdle
    /\ InitStore
    /\ InitMergeIdle
    /\ InitRankIdle
    /\ InitFallbackIdle
    /\ InitCategIdle
    /\ InitReplyIdle
    /\ InitCool
    /\ InitScrapeIdle
    /\ InitDiskIdle
    /\ InitPrefsIdle

SpecCool == InitCoolSpec /\ [][NextCool]_vars

NextScrape == ScrapeStep

InitScrapeSpec ==
    /\ InitSchedIdle
    /\ InitStore
    /\ InitMergeIdle
    /\ InitRankIdle
    /\ InitFallbackIdle
    /\ InitCategIdle
    /\ InitReplyIdle
    /\ InitCoolIdle
    /\ InitScrape
    /\ InitDiskIdle
    /\ InitPrefsIdle

SpecScrape == InitScrapeSpec /\ [][NextScrape]_vars

NextDisk == DiskStep

InitDiskSpec ==
    /\ InitSchedIdle
    /\ InitStore
    /\ InitMergeIdle
    /\ InitRankIdle
    /\ InitFallbackIdle
    /\ InitCategIdle
    /\ InitReplyIdle
    /\ InitCoolIdle
    /\ InitScrapeIdle
    /\ InitDisk
    /\ InitPrefsIdle

SpecDisk == InitDiskSpec /\ [][NextDisk]_vars

NextPrefs == PrefsStep

InitPrefsSpec ==
    /\ InitSchedIdle
    /\ InitStore
    /\ InitMergeIdle
    /\ InitRankIdle
    /\ InitFallbackIdle
    /\ InitCategIdle
    /\ InitReplyIdle
    /\ InitCoolIdle
    /\ InitScrapeIdle
    /\ InitDiskIdle
    /\ InitPrefs

SpecPrefs == InitPrefsSpec /\ [][NextPrefs]_vars

(***************************************************************************)
(* Claims about the scheduler.                                             *)
(***************************************************************************)
Executing(t) == thr[t].pc \in {"call", "ret", "exc"}
Current(t) == Head(thr[t].pending)

\* C1: at any time at most one task execution is in progress, over all
\* interleavings of start(), stop(), the scheduling calls and the ticks.
C1_AtMostOneExecution ==
    Cardinality({t \in Threads : Executing(t)}) <= 1

\* C2: when the function of a recurring task (interval not None) raises,
\* the handler leaves the task in the task set with next_run equal to the
\* attempt time plus its interval.
C2_FailedRecurringRescheduled ==
    [][\A t \in Threads :
         (/\ thr[t].pc = "exc"
          /\ thr'[t].pc # "exc"
          /\ Current(t).live
          /\ Current(t).interval # NoInterval)
         => /\ Current(t).id \in DOMAIN tasks'
            /\ tasks'[Current(t).id].next_run = Current(t).interval]_vars

\* C3: a one-time task is no longer in the task set once the scheduler has
\* finished executing it, so that it cannot be invoked a second time.
C3_OneTimeRemovedAfterExecution ==
    [][\A t \in Threads :
         (/\ thr[t].pc \in {"ret", "exc"}
          /\ thr'[t].pc \notin {"ret", "exc"}
          /\ Current(t).live
          /\ Current(t).interval = NoInterval)
         => Current(t).id \notin DOMAIN tasks']_vars

RecurringScheduled(id) ==
    running /\ id \in DOMAIN tasks /\ tasks[id].interval # NoInterval

BeingExecuted(id) ==
    \E t \in Threads :
        thr[t].pc = "call" /\ Current(t).id = id /\ Current(t).live

\* C4: an exception raised by a task or inside a tick does not end the
\* loop: a loop thread ends only at the test of self.running, the tasks
\* still due in the tick of a failed task are executed, and while the
\* scheduler runs every recurring task that stays scheduled is executed
\* again.
C4_LoopSurvivesErrors ==
    /\ [][\A t \in Threads :
            thr[t].pc \notin {"dead", "loop"} => thr'[t].pc # "dead"]_vars
    /\ \A t \in Threads : \A n \in 1..Len(TaskOrder) :
          (thr[t].pc = "exc" /\ Len(thr[t].pending) = n + 1)
             ~> (thr[t].pc = "call" /\ Len(thr[t].pending) = n)
    /\ \A id \in TaskIds :
          RecurringScheduled(id) ~> (~RecurringScheduled(id) \/ BeingExecuted(id))

C4_Witness ==
    \E t \in Threads :
        /\ running
        /\ thr[t].pc = "exc"
        /\ Len(thr[t].pending) >= 2
        /\ RecurringScheduled(Current(t).id)


(***************************************************************************)
(* Claims about the pipeline and the store.                                *)
(***************************************************************************)
UniqueIds(seq) ==
    \A i, j \in 1..Len(seq) : i # j => seq[i].id # seq[j].id

\* NoDate is the smallest date value, so this order puts undated articles
\* behind every dated one.
SortedNewestFirst(seq) ==
    \A i, j \in 1..Len(seq) :
        i < j => seq[i].published_date >= seq[j].published_date

\* A step of _save_articles that has new articles to add and whose write
\* to the file does not fail.
SavesNewArticles ==
    /\ run.pc = "save"
    /\ NewArticles(store, run.batch) # <<>>
    /\ run'.last # "io_error"

Merged == store \o NewArticles(store, run.batch)

C7_MergedSortedAndPersisted ==
    [][SavesNewArticles =>
          /\ SortedNewestFirst(store')
          /\ (Len(Merged) <= StoreCap => IdsOf(store') = IdsOf(Merged))]_vars

\* C8: after a pipeline save at most StoreCap articles are stored, and when
\* the merge exceeds the cap the dropped articles are the last ones of the
\* newest-first order, undated ones first.
C8_TruncationDropsOldest ==
    [][SavesNewArticles =>
          /\ Len(store') <= StoreCap
          /\ Len(Merged) > StoreCap =>
                /\ Len(store') = StoreCap
                /\ Range(store') \subseteq Range(Merged)
                /\ \A kept \in Range(store') :
                     \A dropped \in Range(Merged) \ Range(store') :
                        dropped.published_date <= kept.published_date]_vars


(***************************************************************************)
(* Claims about merge_articles.                                            *)
(***************************************************************************)
HasId(a) == a.id # NoId

\* C6: whenever merge_articles returns for an existing batch with pairwise
\* distinct ids, the result holds exactly the ids of both batches, each id
\* once (articles without an id aside), and every article of the existing
\* batch is in it.
C6_MergeIsUnionFirstWins ==
    (/\ merge.how = "returned"
     /\ UniqueIds(merge.existing)
     /\ NoId \notin IdsOf(merge.existing))
    => /\ IdsOf(merge.articles) = IdsOf(merge.existing) \cup IdsOf(merge.new)
       /\ UniqueIds(SelectSeq(merge.articles, HasId))
       /\ Range(merge.existing) \subseteq Range(merge.articles)

(***************************************************************************)
(* Claims about rank_articles.                                             *)
(***************************************************************************)
RankedWithoutTopN(path) ==
    ranking.path = path /\ ranking.top_n = NoTopN

\* The titles the model ranked that are titles of the input.
JudgedSet ==
    {it.title : it \in {x \in Range(ranking.response.ranked) : x.kind = "dict"}}
        \cap TitleSet(ranking.articles)

InputPosition(t) ==
    CHOOSE i \in 1..Len(ranking.articles) : ranking.articles[i].title = t

\* C9: for a non-empty input and any answer of the model, rank_articles
\* without top_n returns every input article exactly once and nothing else.
C9_RankReturnsInputSet ==
    (ranking.path \in {"llm", "fallback"} /\ ranking.top_n = NoTopN)
    => /\ Len(ranking.result) = Len(ranking.articles)
       /\ {[title |-> r.title, heuristic |-> r.heuristic] :
              r \in Range(ranking.result)} = Range(ranking.articles)

\* The model ranked a title that is not in the input and left out an input
\* title.
C9_Witness ==
    /\ RankedWithoutTopN("llm")
    /\ Len(ranking.articles) = MaxTitle
    /\ \E it \in Range(ranking.response.ranked) :
          it.kind = "dict" /\ it.title = UnknownTitle
    /\ JudgedSet # {}
    /\ JudgedSet # TitleSet(ranking.articles)

\* C10: on the LLM path the result holds input titles only; the articles the
\* model ranked come first, in descending score order, each with a score
\* the model gave it; the others follow in input order with the default
\* score and the generic reason.
C10_RankedFirstThenUnranked ==
    RankedWithoutTopN("llm") =>
        LET res == ranking.result
            n == Cardinality(JudgedSet)
        IN /\ \A i \in 1..Len(res) :
                /\ res[i].title \in TitleSet(ranking.articles)
                /\ (i <= n) <=> (res[i].title \in JudgedSet)
           /\ \A i \in 1..Len(res) : i <= n =>
                /\ res[i].judge_reason = "model"
                /\ \E it \in Range(ranking.response.ranked) :
                      /\ it.kind = "dict"
                      /\ it.title = res[i].title
                      /\ it.score = res[i].judge_score
           /\ \A i, j \in 1..Len(res) :
                (i < j /\ j <= n) => res[i].judge_score >= res[j].judge_score
           /\ \A i \in 1..Len(res) : i > n =>
                /\ res[i].judge_score = DefaultScore
                /\ res[i].judge_reason = "generic"
           /\ \A i, j \in 1..Len(res) :
                (n < i /\ i < j) =>
                    InputPosition(res[i].title) < InputPosition(res[j].title)

\* The model ranked two input articles, the lower score first, and left out
\* a third.
C10_Witness ==
    /\ RankedWithoutTopN("llm")
    /\ Len(ranking.articles) = MaxTitle
    /\ Cardinality(JudgedSet) = 2
    /\ Len(ranking.response.ranked) = 2
    /\ ranking.response.ranked[1].score < ranking.response.ranked[2].score


(***************************************************************************)
(* Claims about the fallback path of rank_articles.                        *)
(***************************************************************************)
DetailsOf(t) ==
    fallback.articles[CHOOSE i \in 1..Len(fallback.articles) :
                         fallback.articles[i].title = t]

\* max(0, 10 - age_in_hours / 12) + min(len(summary), 300) / 100 of an
\* article whose published_at is a date.
StatedScore(a, now) ==
    Max(0, FullRecency - AgeAt(a.published_at, now)) + SummaryScore(a.summary_len)

Dated(a) == a.published_at.kind \in {"naive", "aware"}

\* C11: a call with a failing model returns, on the fallback path, the
\* articles in descending order of the stated heuristic score.
C11_FallbackOrderedByStatedScore ==
    \A c \in 1..Len(fallback.calls) :
        LET call == fallback.calls[c]
        IN /\ call.path = "fallback"
           /\ \A i, j \in 1..Len(call.result) :
                (/\ i < j
                 /\ Dated(DetailsOf(call.result[i].title))
                 /\ Dated(DetailsOf(call.result[j].title)))
                => StatedScore(DetailsOf(call.result[i].title), call.at)
                      >= StatedScore(DetailsOf(call.result[j].title), call.at)

FallbackScores(call) ==
    {[title |-> r.title, judge_score |-> r.judge_score,
      judge_reason |-> r.judge_reason] : r \in Range(call.result)}

C13_TopNIsPrefixOfFullRanking ==
    (ranking.path \in {"llm", "fallback"} /\ ranking.top_n # NoTopN)
    => ranking.result =
          Take(RankArticles(ranking.articles, ranking.response, NoTopN).result,
               Min(ranking.top_n, Len(ranking.articles)))

\* C14: every returned article carries a judge score from 1 to 10.
C14_JudgeScoreInRange ==
    \A r \in Range(ranking.result) : r.judge_score \in 1..10


(***************************************************************************)
(* Claims about _categorize_article.                                       *)
(***************************************************************************)
\* The highest number of keyword matches of any category.
TopMatches ==
    CHOOSE n \in 0..MaxMatches :
        /\ \E c \in Categories : categ.matches[c] = n
        /\ \A c \in Categories : categ.matches[c] <= n

\* C15: with 2 or more keyword matches in the winning category the result
\* is a category with that number of matches and llm_service is not called;
\* with fewer the call is made.
C15_ThresholdDecidesLlmCall ==
    categ.pc = "done"
    => /\ TopMatches >= 2 => /\ ~categ.asked
                             /\ categ.result \in Categories
                             /\ categ.matches[categ.result] = TopMatches
       /\ TopMatches < 2 => categ.asked

\* Exactly two matches in one category and none in the others; the call
\* has returned.
C15_Witness ==
    /\ categ.pc = "done"
    /\ categ.matches["business"] = 2
    /\ \A c \in Categories \ {"business"} : categ.matches[c] = 0
    /\ categ.result = "business"

\* C16: when the confidence is low and the model call raises or answers
\* nothing, the result is the keyword winner, or "other" without one; the
\* result is never empty or null.
C16_FailedLlmFallsBack ==
    categ.pc = "done"
    => /\ categ.result \notin {NoCategory, ""}
       /\ (categ.asked /\ categ.answer.kind \in {"raises", "empty"})
            => IF TopMatches = 0 THEN categ.result = DefaultCategory
               ELSE /\ categ.result \in Categories
                    /\ categ.matches[categ.result] = TopMatches

\* No keyword matched and the model call raised.
C16_Witness ==
    /\ categ.pc = "done"
    /\ categ.asked
    /\ categ.answer.kind = "raises"
    /\ TopMatches = 0
    /\ categ.result = DefaultCategory


(***************************************************************************)
(* Claims about _send_long_message.                                        *)
(***************************************************************************)
\* C17: no message sent is longer than the limit.
C17_NoMessageOverLimit ==
    \A i \in 1..Len(reply.sent) : Len(reply.sent[i]) <= MessageLimit

\* The texts obtained by joining the chunks in order, each joint being a
\* paragraph separator or, for a paragraph cut at the limit, nothing.
RECURSIVE Rejoined(_)
Rejoined(chunks) ==
    IF chunks = <<>> THEN {<<>>}
    ELSE IF Len(chunks) = 1 THEN {chunks[1]}
    ELSE LET rest == Rejoined(Tail(chunks))
         IN {chunks[1] \o r : r \in rest}
               \cup {chunks[1] \o ParagraphSep \o r : r \in rest}

\* C18: the messages sent, joined in order with the paragraph separators
\* put back, are the text.
C18_ChunksReproduceText ==
    reply.pc = "done" => reply.text \in Rejoined(reply.sent)


(***************************************************************************)
(* Claims about the command cooldown.                                      *)
(***************************************************************************)
\* This step is a call of `command` by `user`.
CallsCommand(user, command) ==
    /\ cool'.call # cool.call \/ cool'.last # cool.last
    /\ cool'.now = cool.now
    /\ cool'.call.user = user
    /\ cool'.call.command = command

\* C19: a call of a command by a user less than the cooldown after the
\* last processed call of that command by that user is rejected with a
\* positive number of remaining seconds and is not processed; a call that
\* is processed comes at least the cooldown after the last processed one.
C19_CooldownRejectsEarlyCalls ==
    [][\A user \in UserIds, command \in Commands :
          (CallsCommand(user, command)
               /\ cool.accepted[<<user, command>>] # NeverCalled)
          => LET since == cool.now - cool.accepted[<<user, command>>]
             IN /\ since < CooldownOf(command)
                     => cool'.call.remaining > 0 /\ ~cool'.call.processed
                /\ cool'.call.processed => since >= CooldownOf(command)]_vars

\* A user's call was rejected one second after the processed one.
C19_Witness ==
    /\ cool.call.user \in UserIds
    /\ cool.call.remaining > 0
    /\ ~cool.call.processed
    /\ cool.call.at = cool.accepted[<<cool.call.user, cool.call.command>>] + 1

\* C29: a check that rejects a call leaves the whole map as it was; a call
\* of a command by a user changes no entry but that of this user and
\* command, and its outcome is decided by that entry alone; a call without
\* a user changes nothing.
C29_RejectedCheckChangesNothing ==
    [][/\ \A user \in UserIds, command \in Commands :
            CallsCommand(user, command)
            => /\ cool'.call.remaining > 0 => cool'.last = cool.last
               /\ \A k \in CooldownKeys \ {<<user, command>>} :
                     cool'.last[k] = cool.last[k]
               /\ cool'.call.remaining =
                     CooldownRemaining(cool.last[<<user, command>>], cool.now,
                                       CooldownOf(command))
       /\ cool'.call.user = NoUser => cool'.last = cool.last]_vars

\* A call was rejected while the same user's other command and the other
\* user's same command had entries of their own, and the entry of the
\* rejected call still holds the time of the earlier call.
C29_Witness ==
    /\ cool.call.user \in UserIds
    /\ cool.call.remaining > 0
    /\ cool.last[<<cool.call.user, cool.call.command>>] < cool.call.at
    /\ \A k \in CooldownKeys : cool.last[k] # NeverCalled
    /\ \E k \in CooldownKeys :
          cool.last[k] > cool.last[<<cool.call.user, cool.call.command>>]


(***************************************************************************)
(* Claims about cleanup_old_data.                                          *)
(***************************************************************************)
OlderThanCutoff(a) == a.published_date # NoDate /\ a.published_date <= CutoffDate
NewerThanCutoff(a) == a.published_date # NoDate /\ a.published_date > CutoffDate

\* C20: a cleanup run removes every stored article published before the
\* cutoff, with its summary, and keeps every article published after it,
\* with its summary.
C20_CleanupRemovesOldKeepsRecent ==
    [][(run.pc = "idle" /\ run'.pc = "idle" /\ run'.last = "cleaned")
       => \A a \in Range(store) :
            /\ OlderThanCutoff(a)
                 => a \notin Range(store') /\ a.id \notin summaries'
            /\ NewerThanCutoff(a)
                 => /\ a \in Range(store')
                    /\ a.id \in summaries => a.id \in summaries']_vars

C21_NoOrphanAfterCleanup ==
    (run.pc = "idle" /\ run.last = "cleaned") => summaries \subseteq IdsOf(store)

\* A cleanup has found a summary without its article, next to an article
\* with its summary, and has run to its end.
C21_Witness ==
    /\ run.pc = "idle"
    /\ run.last = "cleaned"
    /\ run.orphaned
    /\ summaries # {}


(***************************************************************************)
(* Claims about the feed fetcher.                                          *)
(***************************************************************************)
\* The articles fetch_all_feeds owes its caller, given which feeds count as
\* fetched: their articles in the order of the feeds, first of each id.
RECURSIVE ArticlesOfFeeds(_, _)
ArticlesOfFeeds(fetched, f) ==
    IF f \notin Feeds THEN <<>>
    ELSE (IF f \in fetched THEN scrape.feed[f].articles ELSE <<>>)
            \o ArticlesOfFeeds(fetched, f + 1)

DisabledNeverFetched ==
    \A f \in Feeds :
        ~scrape.feed[f].enabled => scrape.feed[f] = NoFetch(FALSE)

CountWhere(seq, Test(_)) == Cardinality({i \in 1..Len(seq) : Test(seq[i])})
Undated(a) == a.published_date = NoDate
Unsigned(a) == a.author = <<>>

\* C23: of the entries a feed serves, those with a title and a link that
\* hold more than white space yield an article each and the others none;
\* an entry without a date yields an article with published_date None, an
\* entry without an author an article with the empty author.
C23_EntryValidIffTitleAndLink ==
    \A f \in Feeds :
        LET feed == scrape.feed[f]
        IN /\ Len(feed.articles) = feed.valid
           /\ CountWhere(feed.articles, Undated) = feed.undated
           /\ CountWhere(feed.articles, Unsigned) = feed.unsigned
           /\ feed.how = "ok" => feed.returned = feed.articles

\* A feed has served three entries, one of them without a usable link and
\* one without a date, and fetch_feed has returned two articles.
C23_Witness ==
    \E f \in Feeds :
        /\ scrape.feed[f].how = "ok"
        /\ scrape.feed[f].seen = 3
        /\ scrape.feed[f].valid = 2
        /\ scrape.feed[f].undated >= 1
        /\ scrape.feed[f].unsigned >= 1
        /\ Len(scrape.feed[f].returned) = 2


(***************************************************************************)
(* Claims about the timing of task executions.                             *)
(***************************************************************************)
\* The step with which loop thread t enters the function of a task.
BeginsExecution(t) == thr[t].pc = "exec" /\ thr'[t].pc = "call"

\* C24: a task whose execution begins is due: its dictionary, when still
\* stored, has a next_run that is not in the future, so that at least its
\* interval has passed since it was scheduled or last rescheduled.
C24_NeverExecutedEarly ==
    [][\A t \in Threads :
         (BeginsExecution(t) /\ Current(t).live)
            => tasks[Current(t).id].next_run <= 0]_vars

\* C26: once stop() has returned, no execution begins before start() is
\* called again.
C26_NoExecutionAfterStop ==
    [][\A t \in Threads :
         BeginsExecution(t) => (running \/ starter = "join")]_vars

\* C27: once cancel_task has deleted a task, no execution of that task
\* begins unless its id has been scheduled anew.
C27_CancelledNeverInvoked ==
    [][\A t \in Threads :
         (BeginsExecution(t) /\ Current(t).cancelled)
            => Current(t).id \in DOMAIN tasks]_vars


(***************************************************************************)
(* Claims about concurrent access to the store files.                      *)
(***************************************************************************)
\* C25: a load made while the file is being rewritten returns the complete
\* collection of before the rewrite or the complete new one.
C25_LoadDuringRewriteIsComplete ==
    (disk.load.made /\ disk.load.during)
        => disk.load.articles \in {disk.load.before, disk.load.after}


(***************************************************************************)
(* Claims about the saved articles of the users.                           *)
(***************************************************************************)
NoDuplicate(seq) == \A i, j \in 1..Len(seq) : seq[i] = seq[j] => i = j

\* Every record, as load_user_preferences returns it, lists each saved id
\* once and counts what it lists.
SavedArticlesCounted ==
    \A u \in UserIds :
        LET record == LoadUserPreferences(prefs, u)
        IN /\ NoDuplicate(record.saved_articles)
           /\ record.articles_saved = Len(record.saved_articles)

\* A callback answered "already saved" changes no record.
ResaveChangesNothing ==
    prefs'.last.answer = "already_saved"
        => \A u \in UserIds :
              LoadUserPreferences(prefs', u) = LoadUserPreferences(prefs, u)

\* A callback changes no record but that of its user.
OtherUsersUnchanged ==
    \A u \in UserIds \ {prefs'.last.user} :
        LoadUserPreferences(prefs', u) = LoadUserPreferences(prefs, u)

\* C30: after any sequence of save-article callbacks every record has no
\* duplicate saved id and articles_saved = len(saved_articles); saving a
\* saved article changes nothing; a save changes no other user's record.
C30_SavedArticlesConsistentPerUser ==
    /\ []SavedArticlesCounted
    /\ [][ResaveChangesNothing]_vars
    /\ [][OtherUsersUnchanged]_vars

====
